---- MODULE Spec2Model ----
(***************************************************************************)
(* A model of src/src/main.rs: one run of the telemetry collector.         *)
(*                                                                         *)
(*   main: init_db -> sample system -> sample disk -> insert -> return     *)
(*                                                                         *)
(* Numbers.  A u64 is held as three limbs <<h, m, l>> of 30 bits           *)
(* (value h * 2^60 + m * 2^30 + l, h < 2^4), so that the arithmetic is the *)
(* 64-bit arithmetic of the program while every intermediate value the     *)
(* model checker computes stays below 2^31.  An f64 produced by            *)
(* bytes_to_gb is held as [num |-> n]: the value n / 2^30, n the limbs of  *)
(* the integer that `bytes as f64` yields (rounded to 53 significant bits).*)
(* Option<T> is a sequence of length 0 (None) or 1 (Some).                 *)
(***************************************************************************)
EXTENDS Integers, Sequences, FiniteSets

VARIABLES
    pc,                 \* position of main: "init_db", "sample_system", "sample_disk", "insert", "return", "done"
    exit,               \* "running", "zero" (main returned Ok) or "panic" (abnormal termination)
    failure,            \* the fatal error that ended the run, "none" while there is none
    overflow_checks,    \* build profile: does an integer overflow panic (debug) or wrap (release)
    env_url,            \* Option: LIBSQL_URL in the environment after dotenv()
    env_token,          \* Option: LIBSQL_AUTH_TOKEN in the environment after dotenv()
    conn,               \* Option: the connection init_db returned, [url, token]
    connections,        \* number of connections opened so far
    os_name,            \* Option: what System::name() answered
    os_host_name,       \* Option: what System::host_name() answered
    system_info,        \* Option: SystemInfo [system_name, system_host_name]
    disks,              \* the enumeration Disks::new_with_refreshed_list() returned
    found,              \* what get_disk_info returned: Option DiskInfo (the local get_disk_info of main)
    disk_info,          \* the DiskInfo of main, as bound to the insert
    executes,           \* number of INSERT statements sent to the database
    rows,               \* rows of table info written by this run
    started,            \* history: the steps of main begun, in order
    completed           \* history: the steps of main completed successfully, in order

vars == <<pc, exit, failure, overflow_checks, env_url, env_token, conn, connections,
          os_name, os_host_name, system_info, disks, found, disk_info, executes,
          rows, started, completed>>

----------------------------------------------------------------------------
(* Bounds and input domains *)

\* Longest disk enumeration the model draws.
MaxDisks == 2

None == <<>>
Some(v) == <<v>>

----------------------------------------------------------------------------
(* u64 and f64 arithmetic *)

\* 1024f64 / 1024f64 / 1024f64: the divisor of bytes_to_gb, also the limb base 2^30.
GiB == 1024 * 1024 * 1024

\* Width of the unsigned integers sysinfo reports (u64).
U64Bits == 64

\* Significant bits of an f64.
F64Mantissa == 53

RECURSIVE BitLen(_)
BitLen(n) == IF n = 0 THEN 0 ELSE 1 + BitLen(n \div 2)

LimbBits == BitLen(GiB) - 1

\* 2^(64 - 60): the range of the top limb of a u64.
TopRange == 2 ^ (U64Bits - 2 * LimbBits)

U64Zero == <<0, 0, 0>>

U64Lt(x, y) ==
    \/ x[1] < y[1]
    \/ x[1] = y[1] /\ x[2] < y[2]
    \/ x[1] = y[1] /\ x[2] = y[2] /\ x[3] < y[3]

U64BitLen(x) ==
    IF x[1] > 0 THEN 2 * LimbBits + BitLen(x[1])
    ELSE IF x[2] > 0 THEN LimbBits + BitLen(x[2])
    ELSE BitLen(x[3])

\* x + y on limbs, not reduced (the top limb takes the carry).
LimbAdd(x, y) ==
    LET l == x[3] + y[3]
        cl == l \div GiB
        m == x[2] + y[2] + cl
        cm == m \div GiB
    IN  <<x[1] + y[1] + cm, m % GiB, l % GiB>>

\* x - y modulo 2^64: u64::wrapping_sub, what `-` computes without overflow checks.
wrapping_sub(x, y) ==
    LET l == x[3] - y[3]
        bl == IF l < 0 THEN 1 ELSE 0
        m == x[2] - y[2] - bl
        bm == IF m < 0 THEN 1 ELSE 0
        h == x[1] - y[1] - bm
    IN  <<IF h < 0 THEN h + TopRange ELSE h,
          IF m < 0 THEN m + GiB ELSE m,
          IF l < 0 THEN l + GiB ELSE l>>

\* `bytes as f64`: the nearest integer with at most 53 significant bits, ties to even.
as_f64(x) ==
    LET k == U64BitLen(x) - F64Mantissa
    IN  IF k <= 0 THEN x
        ELSE LET unit == 2 ^ k
                 r == x[3] % unit
                 down == <<x[1], x[2], x[3] - r>>
                 odd == (x[3] \div unit) % 2 = 1
                 up == r * 2 > unit \/ (r * 2 = unit /\ odd)
             IN  IF up THEN LimbAdd(down, <<0, 0, unit>>) ELSE down

\* Mutant: integer division before the conversion, which drops the fraction.
bytes_to_gb_truncated(bytes) == [num |-> <<bytes[1], bytes[2], 0>>]

\* DiskInfo::bytes_to_gb. Each division by 1024 is exact in binary floating point,
\* so the result is as_f64(bytes) / 2^30, held as its numerator.
bytes_to_gb(bytes) == [num |-> as_f64(bytes)]

F64Zero == [num |-> U64Zero]

\* a <= b on f64 values of the form n / 2^30
F64Le(a, b) == ~U64Lt(b.num, a.num)

----------------------------------------------------------------------------
(* f64::to_string: the decimal text of n / 2^30 *)

DigitChar(d) == SubSeq("0123456789", d + 1, d + 1)

\* decimal digits of the integer h * 2^30 + l
RECURSIVE WholeDigits(_, _)
WholeDigits(h, l) ==
    IF h = 0 /\ l < 10 THEN DigitChar(l)
    ELSE LET rh == h % 10
             low == (GiB % 10) * rh + l
         IN  WholeDigits(h \div 10, (GiB \div 10) * rh + (low \div 10))
                 \o DigitChar(low % 10)

\* decimal digits of the fraction f / 2^30, f < 2^30 (exact: the expansion is finite)
RECURSIVE FracDigits(_)
FracDigits(f) ==
    IF f = 0 THEN ""
    ELSE LET half == 2 ^ (LimbBits \div 2)
             a == f \div half
             b == f % half
             t == 10 * a + ((10 * b) \div half)
         IN  DigitChar(t \div half)
                 \o FracDigits((t % half) * half + ((10 * b) % half))

\* Display of an f64: no exponent, no trailing ".0"; the shortest text that reads
\* back as the same value, which is the exact expansion whenever that has at most
\* 15 significant digits (every value the modelled inputs produce).
to_string(v) ==
    LET whole == WholeDigits(v.num[1], v.num[2])
    IN  IF v.num[3] = 0 THEN whole ELSE whole \o "." \o FracDigits(v.num[3])

----------------------------------------------------------------------------
(* Inputs: what the environment, the operating system and the database answer *)

Urls == {None, Some("libsql://db.example")}
Tokens == {None, Some("secret")}
OsNames == {None, Some("Linux")}
HostNames == {None, Some("host1")}

\* to_str() of a disk's name and of its mount point: None when it is not valid text.
DiskNames == {None, Some("sda1"), Some("nvme0n1p6")}
MountPoints == {None, Some("/"), Some("/home/data")}

\* <<total_space, available_space>> in bytes:
\*   10 GiB / 5 GiB;  1.5 GiB / 0.5 GiB;  5 GiB / 10 GiB (more available than total);
\*   2^63 + 1 / 2^62 (beyond the 53 bits an f64 holds exactly).
DiskSizes ==
    { <<(<<0, 10, 0>>), (<<0, 5, 0>>)>>,
      <<(<<0, 1, GiB \div 2>>), (<<0, 0, GiB \div 2>>)>>,
      <<(<<0, 5, 0>>), (<<0, 10, 0>>)>>,
      <<(<<TopRange \div 2, 0, 1>>), (<<TopRange \div 4, 0, 0>>)>> }

Disk(n, m, sz) ==
    [name |-> n, mount_point |-> m, total_space |-> sz[1], available_space |-> sz[2]]

\* The byte counts every kind of disk is drawn with; the program reads the byte
\* counts of the selected disk only, which is drawn with all of DiskSizes.
CommonSizes ==
    { <<(<<0, 10, 0>>), (<<0, 5, 0>>)>>,
      <<(<<0, 5, 0>>), (<<0, 10, 0>>)>> }

DiskSet ==
    { Disk(n, m, sz) : n \in DiskNames, m \in MountPoints, sz \in CommonSizes }
        \cup { Disk(Some("nvme0n1p6"), Some("/home/data"), sz) : sz \in DiskSizes }

\* Disks::new_with_refreshed_list(): any enumeration, in any order.
Enumerations == UNION { [1..n -> DiskSet] : n \in 0..MaxDisks }

----------------------------------------------------------------------------
(* Pure parts of the program *)

\* str::contains
contains(s, pat) ==
    \E i \in 1..(Len(s) - Len(pat) + 1) : SubSeq(s, i, i + Len(pat) - 1) = pat

\* Mutant: a placeholder instead of the empty default.
unwrap_or_unknown(o) == IF o = None THEN "unknown" ELSE o[1]

\* Option<String>::unwrap_or_default
unwrap_or_default(o) == IF o = None THEN "" ELSE o[1]

\* The result of get_disk_info: panic is "none" when it returned ret.
Returned(ret) == [panic |-> "none", ret |-> ret]
Panicked(why) == [panic |-> why, ret |-> None]

\* Lines 106-112: the metrics of the selected disk.
disk_metrics(disk) ==
    IF overflow_checks /\ U64Lt(disk.total_space, disk.available_space)
    THEN Panicked("overflow")
    ELSE LET total_usage == wrapping_sub(disk.total_space, disk.available_space)
         IN  Returned(Some([system_total_space |-> bytes_to_gb(disk.total_space),
                            system_available_space |-> bytes_to_gb(disk.available_space),
                            system_used_space |-> bytes_to_gb(total_usage)]))

\* Mutant: || instead of &&.
disk_filter_either(disk) ==
    IF disk.name = None THEN "skip"
    ELSE IF contains(disk.name[1], "1p6") THEN "select"
    ELSE IF disk.mount_point = None THEN "panic"
    ELSE IF contains(disk.mount_point[1], "/home") THEN "select"
    ELSE "skip"

\* Mutant: an undecodable mount point is skipped instead of being fatal.
disk_filter_lenient(disk) ==
    IF disk.name = None THEN "skip"
    ELSE IF ~contains(disk.name[1], "1p6") THEN "skip"
    ELSE IF disk.mount_point = None THEN "skip"
    ELSE IF contains(disk.mount_point[1], "/home") THEN "select"
    ELSE "skip"

\* Mutant: the mount point is decoded before the name is tested.
disk_filter_decode_first(disk) ==
    IF disk.name = None THEN "skip"
    ELSE IF disk.mount_point = None THEN "panic"
    ELSE IF ~contains(disk.name[1], "1p6") THEN "skip"
    ELSE IF contains(disk.mount_point[1], "/home") THEN "select"
    ELSE "skip"

\* Lines 98-105: the filter on one disk: "skip", "select" or "panic".
\* The mount point is decoded only after the name matched (&& short-circuits).
disk_filter(disk) ==
    IF disk.name = None THEN "skip"
    ELSE IF ~contains(disk.name[1], "1p6") THEN "skip"
    ELSE IF disk.mount_point = None THEN "panic"
    ELSE IF contains(disk.mount_point[1], "/home") THEN "select"
    ELSE "skip"

\* Mutant: the loop keeps going after a match, so the last match wins.
RECURSIVE scan_disks_last(_, _)
scan_disks_last(ds, i) ==
    IF i > Len(ds) THEN Returned(None)
    ELSE LET verdict == disk_filter(ds[i])
             rest == scan_disks_last(ds, i + 1)
         IN  IF verdict = "panic" THEN Panicked("mount_point")
             ELSE IF verdict = "select" /\ rest = Returned(None) THEN disk_metrics(ds[i])
             ELSE rest

\* The loop of get_disk_info from index i on.
RECURSIVE scan_disks(_, _)
scan_disks(ds, i) ==
    IF i > Len(ds) THEN Returned(None)
    ELSE LET verdict == disk_filter(ds[i])
         IN  IF verdict = "panic" THEN Panicked("mount_point")
             ELSE IF verdict = "select" THEN disk_metrics(ds[i])
             ELSE scan_disks(ds, i + 1)

get_disk_info(ds) == scan_disks(ds, 1)

ZeroDiskInfo ==
    [system_total_space |-> F64Zero,
     system_available_space |-> F64Zero,
     system_used_space |-> F64Zero]

\* Lines 41-57: the DiskInfo main binds, given what get_disk_info returned.
main_disk_info(ret) == IF ret = None THEN ZeroDiskInfo ELSE ret[1]

\* Lines 70-76: the five parameters bound to the INSERT.
insert_params(system, disk) ==
    <<system.system_name,
      system.system_host_name,
      to_string(disk.system_total_space),
      to_string(disk.system_available_space),
      to_string(disk.system_used_space)>>

\* Lines 88-92: how init_db ends: "env", "build", "connect" (a fatal error each) or "ok".
init_db_outcome(url, build_ok, connect_ok) ==
    IF url = None THEN "env"
    ELSE IF ~build_ok THEN "build"
    ELSE IF ~connect_ok THEN "connect"
    ELSE "ok"

\* Mutant: the error of execute is dropped.
insert_outcome_ignored(execute_ok) == "ok"

\* Lines 78-82: how insert_into_db ends, given what execute answered.
insert_outcome(execute_ok) == IF execute_ok THEN "ok" ELSE "insert"

----------------------------------------------------------------------------
(* The run *)

Init ==
    /\ pc = "init_db"
    /\ exit = "running"
    /\ failure = "none"
    /\ overflow_checks \in BOOLEAN
    /\ env_url \in Urls
    /\ env_token \in Tokens
    /\ conn = None
    /\ connections = 0
    /\ os_name = None
    /\ os_host_name = None
    /\ system_info = None
    /\ disks = <<>>
    /\ found = None
    /\ disk_info = ZeroDiskInfo
    /\ executes = 0
    /\ rows = <<>>
    /\ started = <<>>
    /\ completed = <<>>

\* Mutant: the insert is sent again after it succeeded.
after_insert_again(step) ==
    CASE step = "init_db" -> "sample_system"
      [] step = "sample_system" -> "sample_disk"
      [] step = "sample_disk" -> "insert"
      [] step = "insert" -> IF executes = 0 THEN "insert" ELSE "return"
      [] step = "return" -> "done"

\* Lines 25-60: main runs its steps top to bottom.
after(step) ==
    CASE step = "init_db" -> "sample_system"
      [] step = "sample_system" -> "sample_disk"
      [] step = "sample_disk" -> "insert"
      [] step = "insert" -> "return"
      [] step = "return" -> "done"

\* Mutant: the error is recorded and main carries on.
AbortLogged(why) ==
    /\ pc' = after(pc)
    /\ exit' = exit
    /\ failure' = why

\* A panic (unwrap, expect, panic!) ends the process at once.
Abort(why) ==
    /\ pc' = "done"
    /\ exit' = "panic"
    /\ failure' = why

\* Line 25: init_db().await.unwrap()
init_db ==
    /\ pc = "init_db"
    /\ started' = Append(started, "connect")
    /\ \E build_ok \in BOOLEAN, connect_ok \in BOOLEAN :
         LET outcome == init_db_outcome(env_url, build_ok, connect_ok)
         IN  IF outcome = "ok"
             THEN /\ conn' = Some([url |-> env_url[1],
                                   token |-> unwrap_or_default(env_token)])
                  /\ connections' = connections + 1
                  /\ completed' = Append(completed, "connect")
                  /\ pc' = after(pc)
                  /\ UNCHANGED <<exit, failure>>
             ELSE /\ Abort(outcome)
                  /\ UNCHANGED <<conn, connections, completed>>
    /\ UNCHANGED <<overflow_checks, env_url, env_token, os_name, os_host_name,
                   system_info, disks, found, disk_info, executes, rows>>

\* Lines 27-36: System::new_all, refresh_all, name, host_name
sample_system ==
    /\ pc = "sample_system"
    /\ \E n \in OsNames, h \in HostNames :
         /\ os_name' = n
         /\ os_host_name' = h
         /\ system_info' = Some([system_name |-> unwrap_or_default(n),
                                 system_host_name |-> unwrap_or_default(h)])
    /\ started' = Append(started, "sample_system")
    /\ completed' = Append(completed, "sample_system")
    /\ pc' = after(pc)
    /\ UNCHANGED <<exit, failure, overflow_checks, env_url, env_token, conn,
                   connections, disks, found, disk_info, executes, rows>>

\* Lines 38-57: Disks::new_with_refreshed_list, get_disk_info, the default DiskInfo
sample_disk ==
    /\ pc = "sample_disk"
    /\ started' = Append(started, "sample_disk")
    /\ \E ds \in Enumerations :
         /\ disks' = ds
         /\ LET r == get_disk_info(ds)
            IN  IF r.panic = "none"
                THEN /\ found' = r.ret
                     /\ disk_info' = main_disk_info(r.ret)
                     /\ completed' = Append(completed, "sample_disk")
                     /\ pc' = after(pc)
                     /\ UNCHANGED <<exit, failure>>
                ELSE /\ Abort(r.panic)
                     /\ UNCHANGED <<found, disk_info, completed>>
    /\ UNCHANGED <<overflow_checks, env_url, env_token, conn, connections, os_name,
                   os_host_name, system_info, executes, rows>>

\* Line 59 and lines 63-83: insert_into_db(&conn, system_info, disk_info).await?
insert_into_db ==
    /\ pc = "insert"
    /\ started' = Append(started, "insert")
    /\ executes' = executes + 1
    /\ \E execute_ok \in BOOLEAN :
         \* the database stores the row exactly when execute succeeds
         /\ rows' = IF execute_ok
                    THEN Append(rows, insert_params(system_info[1], disk_info))
                    ELSE rows
         /\ LET outcome == insert_outcome(execute_ok)
            IN  IF outcome = "ok"
                THEN /\ completed' = Append(completed, "insert")
                     /\ pc' = after(pc)
                     /\ UNCHANGED <<exit, failure>>
                ELSE /\ Abort(outcome)
                     /\ UNCHANGED completed
    /\ UNCHANGED <<overflow_checks, env_url, env_token, conn, connections, os_name,
                   os_host_name, system_info, disks, found, disk_info>>

\* Line 60: Ok(()) - main returns and the process exits with status zero.
main_return ==
    /\ pc = "return"
    /\ started' = Append(started, "exit")
    /\ completed' = Append(completed, "exit")
    /\ exit' = "zero"
    /\ pc' = after(pc)
    /\ UNCHANGED <<failure, overflow_checks, env_url, env_token, conn, connections,
                   os_name, os_host_name, system_info, disks, found, disk_info,
                   executes, rows>>

Next ==
    \/ init_db
    \/ sample_system
    \/ sample_disk
    \/ insert_into_db
    \/ main_return

Spec == Init /\ [][Next]_vars

----------------------------------------------------------------------------
(* Vocabulary of the properties *)

Order == <<"connect", "sample_system", "sample_disk", "insert", "exit">>

IsPrefix(s, t) == Len(s) <= Len(t) /\ \A i \in 1..Len(s) : s[i] = t[i]

\* The step has begun / has completed successfully.
Began(step) == \E i \in 1..Len(started) : started[i] = step
Completed(step) == \E i \in 1..Len(completed) : completed[i] = step

\* The two filters of the disk sampler, as the specification words them.
NameMatches(d) == d.name # None /\ contains(d.name[1], "1p6")
MountMatches(d) == d.mount_point # None /\ contains(d.mount_point[1], "/home")
BothMatch(d) == NameMatches(d) /\ MountMatches(d)
\* A disk whose name matches and whose mount point is not valid text.
Undecodable(d) == NameMatches(d) /\ d.mount_point = None

Matching == { i \in 1..Len(disks) : BothMatch(disks[i]) }
FirstMatching == CHOOSE i \in Matching : \A j \in Matching : i <= j

\* The value is held exactly by an f64.
Exact(x) == U64BitLen(x) <= F64Mantissa

\* The metrics of disk d: bytes / 1024^3, used from the difference modulo 2^64.
MetricsOf(d) ==
    [system_total_space |-> bytes_to_gb(d.total_space),
     system_available_space |-> bytes_to_gb(d.available_space),
     system_used_space |-> bytes_to_gb(wrapping_sub(d.total_space, d.available_space))]

\* Every row written has "0" in its three numeric fields.
RowsAllZero == \A k \in 1..Len(rows) : rows[k][3] = "0" /\ rows[k][4] = "0" /\ rows[k][5] = "0"

NothingSampledOrInserted ==
    /\ ~Began("sample_system")
    /\ ~Began("sample_disk")
    /\ ~Began("insert")
    /\ system_info = None
    /\ executes = 0
    /\ rows = <<>>

----------------------------------------------------------------------------
(* C1 *)

\* C1: when init_db fails (LIBSQL_URL unset, the build of the database handle
\* fails, or connect fails) the run has aborted with nothing sampled and no
\* insert executed, and stays so.
C1_InitFailureAbortsBeforeSampling ==
    (pc # "init_db" /\ (env_url = None \/ failure \in {"env", "build", "connect"}))
        => /\ pc = "done"
           /\ exit = "panic"
           /\ conn = None
           /\ NothingSampledOrInserted

C1_Witness == pc = "done" /\ failure = "build" /\ env_url # None

----------------------------------------------------------------------------
(* C2 *)

C2_Ordered ==
    /\ IsPrefix(started, Order)
    /\ IsPrefix(completed, started)
    /\ Len(started) <= Len(completed) + 1
    /\ (Len(started) > Len(completed) => exit = "panic" /\ pc = "done")
    /\ executes <= 1
    /\ Len(rows) <= 1

\* C2 (as amended): the steps begin in the order connect, sample system, sample
\* disk, insert, exit, each only after the previous one completed, none twice;
\* at most one insert is executed; at most one connection is opened, and exactly
\* one once connect has completed.
C2_StrictOrder ==
    /\ C2_Ordered
    /\ connections <= 1
    /\ (Completed("connect") <=> connections = 1)

\* C2 as stated: in every run exactly one connection is opened.
C2_Original ==
    /\ C2_Ordered
    /\ (pc = "done" => connections = 1)

C2_Witness == pc = "done" /\ exit = "zero" /\ completed = Order /\ connections = 1

----------------------------------------------------------------------------
(* C3 *)

----------------------------------------------------------------------------
(* C4 *)

C4_NoMatchOutcome ==
    /\ Completed("sample_disk")
    /\ found = None
    /\ disk_info = ZeroDiskInfo
    /\ RowsAllZero

\* C4 (as amended): when no disk satisfies both filters and no name-matching
\* disk has an undecodable mount point, get_disk_info returns None without an
\* error and the row main inserts has zero in its three numeric fields.
C4_NoMatchGivesZeros ==
    (/\ Began("sample_disk")
     /\ Matching = {}
     /\ \A i \in 1..Len(disks) : ~Undecodable(disks[i]))
        => C4_NoMatchOutcome

\* C4 as stated: for every enumeration without a disk satisfying both filters.
C4_Original ==
    (Began("sample_disk") /\ Matching = {}) => C4_NoMatchOutcome

C4_Witness ==
    /\ Len(rows) = 1
    /\ RowsAllZero
    /\ Len(disks) = 2
    /\ NameMatches(disks[1]) /\ ~MountMatches(disks[1]) /\ disks[1].mount_point # None
    /\ MountMatches(disks[2]) /\ ~NameMatches(disks[2])

----------------------------------------------------------------------------
(* C5 *)

C5_AbortedWithoutInsert ==
    /\ pc = "done"
    /\ exit = "panic"
    /\ executes = 0
    /\ rows = <<>>

\* C5 (as amended): when the enumeration holds a name-matching disk with an
\* undecodable mount point and no disk before it satisfies both filters, the
\* run terminates with an error and no insert occurs.
C5_UndecodableCandidateAborts ==
    (/\ Began("sample_disk")
     /\ \E i \in 1..Len(disks) :
            /\ Undecodable(disks[i])
            /\ \A j \in 1..(i - 1) : ~BothMatch(disks[j]))
        => C5_AbortedWithoutInsert /\ failure = "mount_point"

\* C5 as stated: wherever that disk stands in the enumeration.
C5_Original ==
    (/\ Began("sample_disk")
     /\ \E i \in 1..Len(disks) : Undecodable(disks[i]))
        => C5_AbortedWithoutInsert

C5_Witness ==
    /\ failure = "mount_point"
    /\ Len(disks) = 2
    /\ ~NameMatches(disks[1])
    /\ Undecodable(disks[2])

----------------------------------------------------------------------------
(* C6 *)

\* What the claim says of the metrics returned for disk d.
C6_Metrics(d, info) ==
    /\ Exact(d.total_space) => info.system_total_space.num = d.total_space
    /\ Exact(d.available_space) => info.system_available_space.num = d.available_space

\* used = total - available, exactly.
C6_UsedIsDifference(info) ==
    LimbAdd(info.system_used_space.num, info.system_available_space.num)
        = info.system_total_space.num

----------------------------------------------------------------------------
(* C7 *)

\* C7: when no disk's name contains "1p6" (undecodable names and mount points
\* included), get_disk_info returns None without aborting and the row written
\* has zero in its three numeric fields.
C7_NoNameMatchNeverAborts ==
    (/\ Began("sample_disk")
     /\ \A i \in 1..Len(disks) : ~NameMatches(disks[i]))
        => /\ Completed("sample_disk")
           /\ failure \notin {"mount_point", "overflow"}
           /\ found = None
           /\ disk_info = ZeroDiskInfo
           /\ RowsAllZero

C7_Witness ==
    /\ Len(rows) = 1
    /\ RowsAllZero
    /\ Len(disks) = 2
    /\ disks[1].name = None
    /\ disks[2].name # None /\ ~NameMatches(disks[2]) /\ disks[2].mount_point = None

----------------------------------------------------------------------------
(* C8 *)

\* C8: the run exits zero exactly when its single insert succeeded; a failing
\* insert ends the run abnormally at once and is not retried; every fatal
\* error ends the run abnormally.
C8_ExitZeroIffInserted ==
    /\ (pc = "done" => (exit = "zero" <=> Len(rows) = 1))
    /\ (exit = "zero" => pc = "done" /\ failure = "none" /\ executes = 1)
    /\ (Len(rows) = 1 => pc \in {"return", "done"} /\ exit # "panic")
    /\ executes <= 1
    /\ ((executes = 1 /\ rows = <<>>)
           => pc = "done" /\ exit = "panic" /\ failure = "insert")
    /\ (failure # "none" => pc = "done" /\ exit = "panic")
    /\ ((env_url = None /\ pc # "init_db") => exit = "panic")

C8_Witness == failure = "insert" /\ executes = 1 /\ exit = "panic"

----------------------------------------------------------------------------
(* C9 *)

EmptyIfAbsent(o, s) == s = (IF o = None THEN "" ELSE o[1])

\* C9: an unset LIBSQL_AUTH_TOKEN, an unavailable OS name and an unavailable
\* host name are each replaced by the empty string and never abort the run:
\* init_db fails on the environment only when LIBSQL_URL is unset, system
\* sampling always completes, and the insert binds the substituted values.
C9_AbsentOptionalInputs ==
    /\ (conn # None => EmptyIfAbsent(env_token, conn[1].token))
    /\ ((pc # "init_db" /\ env_url # None) => failure # "env")
    /\ (Began("sample_system") => Completed("sample_system") /\ system_info # None)
    /\ (system_info # None
           => /\ EmptyIfAbsent(os_name, system_info[1].system_name)
              /\ EmptyIfAbsent(os_host_name, system_info[1].system_host_name))
    /\ \A k \in 1..Len(rows) :
           /\ EmptyIfAbsent(os_name, rows[k][1])
           /\ EmptyIfAbsent(os_host_name, rows[k][2])

C9_Witness ==
    /\ exit = "zero"
    /\ env_token = None /\ os_name = None /\ os_host_name = None
    /\ conn[1].token = ""
    /\ rows[1][1] = "" /\ rows[1][2] = ""

----------------------------------------------------------------------------
(* C10 *)

\* get_disk_info reaches the subtraction on the first disk satisfying both filters.
SelectionReached ==
    /\ Began("sample_disk")
    /\ Matching # {}
    /\ \A j \in 1..(FirstMatching - 1) : ~Undecodable(disks[j])

\* C10: for every selected disk the subtraction total_space - available_space
\* neither aborts the run nor wraps around: the fields bound to the insert are
\* non-negative and used_space does not exceed total_space.
C10_SubtractionSafe ==
    SelectionReached
        => /\ failure # "overflow"
           /\ Completed("sample_disk")
           /\ F64Le(F64Zero, disk_info.system_used_space)
           /\ F64Le(disk_info.system_used_space, disk_info.system_total_space)

====
